---- MODULE Spec2Model ----
(***************************************************************************)
(* Model of the linear motion core, src/motion/linear_axis.c: the          *)
(* trapezoidal profiler (LinearAxis_calculate_move), the cooperative step  *)
(* loop (start_move / timed_step / direct_step / calculate_step_interval)  *)
(* and the two homing routines (sensorless_home, endstop_home).            *)
(*                                                                         *)
(* Numbers.  Lengths in mm are fixed-point integers counting 1/MmScale mm, *)
(* so that dest_mm * steps_per_mm can be fractional and ceilf() matters.   *)
(* Velocities (mm/s), accelerations (mm/s^2) and steps_per_mm are whole    *)
(* numbers.  Float rounding error of the C arithmetic is not modelled:     *)
(* quotients are computed exactly and then rounded the way the C code      *)
(* rounds (ceilf, lroundf, the (int64_t) cast); sqrtf is computed to one   *)
(* decimal digit.  Step positions stay far below the int32 range.          *)
(* Time is the monotonic clock in microseconds.                            *)
(***************************************************************************)
EXTENDS Integers, Sequences, FiniteSets, TLC

\* ------------------------------------------------------------------ bounds
\* Fixed-point units per mm for the lengths handed to the model.
MmScale == 8
\* Largest |destination| a caller asks for, in 1/MmScale mm.
MaxDest == 4
\* The clock stops advancing here (microseconds).
MaxTime == 30000
\* A thread in wait_for_move polls timed_step before the clock is this far
\* past the deadline (microseconds).
MaxLate == 2500
\* wait_for_move is not called after this time (microseconds).
MaxStart == 3000
\* The clock of a wait_for_move stops this long after MaxStart (microseconds).
MaxWait == 100000

\* --------------------------------------------------------- configurations
\* Values the firmware configuration may give the axis (not set in src/).
StepsPerMmSet == {4}
VelocitySet == {100}
AccelerationSet == {20000}
HomingVelocitySet == {200}
HomingAccelerationSet == {40000}
HomingDirectionSet == {-1, 1}
\* homing_distance_mm and homing_bounce_mm, in 1/MmScale mm.
HomingDistanceSet == {10}
HomingBounceSet == {6}
Stepper2Set == {TRUE, FALSE}
\* Clock advances between two calls of the cooperative loop (microseconds);
\* the largest is the 10 ms delay of a late tick.
TickSet == {2500, 10000}

VARIABLES
    \* struct LinearAxis
    steps_per_mm, velocity_mm_s, acceleration_mm_s2,
    homing_velocity_mm_s, homing_acceleration_mm_s2, homing_direction,
    homing_distance_mm, homing_bounce_mm,
    _current_move, _step_interval, _next_step_at,
    \* the drivers: stepper is [total_steps, direction], stepper2 is
    \* [present, total_steps, direction]; stallguard is the primary driver's
    \* stall detection (enabled or not)
    stepper, stepper2, stallguard,
    \* the monotonic clock
    now,
    \* control: where the single thread is, and the homing routines' locals
    pc, homing, old_velocity, old_acceleration, check_for_stall,
    \* history: last operation; whether the last evaluation of a seek loop's
    \* exit condition saw its trigger; and for the move installed by the last
    \* start_move: the plan, total_steps at that moment, pulses emitted since,
    \* whether stop() was called since, and whether a due timed_step came
    \* 10 ms or more after its deadline; the kinematics on entry to homing
    op, trigger, plan, origin, pulses, stopped, late,
    entry_velocity, entry_acceleration

axis_vars == <<steps_per_mm, velocity_mm_s, acceleration_mm_s2,
               homing_velocity_mm_s, homing_acceleration_mm_s2, homing_direction,
               homing_distance_mm, homing_bounce_mm>>
cfg_vars == <<steps_per_mm, homing_velocity_mm_s, homing_acceleration_mm_s2,
              homing_direction, homing_distance_mm, homing_bounce_mm>>
move_vars == <<_current_move, _step_interval, _next_step_at>>
driver_vars == <<stepper, stepper2, stallguard>>
world_vars == <<now>>
home_vars == <<pc, homing, old_velocity, old_acceleration, check_for_stall>>
move_hist == <<plan, origin, pulses, stopped, late>>
entry_vars == <<entry_velocity, entry_acceleration>>
hist_vars == <<op, trigger, move_hist, entry_vars>>
vars == <<axis_vars, move_vars, driver_vars, world_vars, home_vars, hist_vars>>

\* ----------------------------------------------------------- arithmetic
Abs(x) == IF x < 0 THEN -x ELSE x

\* ceilf(n / d) for d > 0
CeilDiv(n, d) == -((-n) \div d)

\* lroundf(n / d) for n >= 0, d > 0: halfway cases away from zero
RoundDiv(n, d) == (2 * n + d) \div (2 * d)

RECURSIVE ISqrtIn(_, _, _)
ISqrtIn(lo, hi, n) ==
    IF lo >= hi THEN lo
    ELSE LET mid == (lo + hi + 1) \div 2
         IN IF mid * mid <= n THEN ISqrtIn(mid, hi, n) ELSE ISqrtIn(lo, mid - 1, n)

\* floor(sqrt(n)) for 0 <= n < 2^30
ISqrt(n) == ISqrtIn(0, 32767, n)

\* ------------------------------------------------------------ the plan
\* (struct LinearAxisMovement){}
ZeroMove == [direction |-> 0, accel_step_count |-> 0, decel_step_count |-> 0,
             coast_step_count |-> 0, total_step_count |-> 0, steps_taken |-> 0]

\* A calculate_move whose short-move branch gives deceleration the same
\* count as acceleration instead of the remainder.
LinearAxis_calculate_move_SymmetricSplit(dest_mm, total_steps, v, a, spm) ==
    LET dest_steps == CeilDiv(dest_mm * spm, MmScale)
        delta_steps == dest_steps - total_steps
        dir == IF delta_steps < 0 THEN -1 ELSE 1
        total_step_count == Abs(delta_steps)
        accel_ideal == RoundDiv(v * v * spm, 2 * a)
        coast_ideal == total_step_count - accel_ideal - accel_ideal
        accel_short == total_step_count \div 2
    IN IF coast_ideal <= 0
       THEN [direction |-> dir,
             accel_step_count |-> accel_short,
             decel_step_count |-> accel_short,
             coast_step_count |-> 0,
             total_step_count |-> total_step_count,
             steps_taken |-> 0]
       ELSE [direction |-> dir,
             accel_step_count |-> accel_ideal,
             decel_step_count |-> accel_ideal,
             coast_step_count |-> coast_ideal,
             total_step_count |-> total_step_count,
             steps_taken |-> 0]

\* LinearAxis_calculate_move: dest_mm in 1/MmScale mm, total_steps the
\* primary driver's counter, v, a, spm the axis' kinematics.
LinearAxis_calculate_move(dest_mm, total_steps, v, a, spm) ==
    LET dest_steps == CeilDiv(dest_mm * spm, MmScale)
        delta_steps == dest_steps - total_steps
        dir == IF delta_steps < 0 THEN -1 ELSE 1
        total_step_count == Abs(delta_steps)
        \* accel_distance_mm * steps_per_mm = 0.5 * (v / a) * v * spm
        accel_ideal == RoundDiv(v * v * spm, 2 * a)
        coast_ideal == total_step_count - accel_ideal - accel_ideal
        accel_short == total_step_count \div 2
    IN IF coast_ideal <= 0
       THEN [direction |-> dir,
             accel_step_count |-> accel_short,
             decel_step_count |-> total_step_count - accel_short,
             coast_step_count |-> 0,
             total_step_count |-> total_step_count,
             steps_taken |-> 0]
       ELSE [direction |-> dir,
             accel_step_count |-> accel_ideal,
             decel_step_count |-> accel_ideal,
             coast_step_count |-> coast_ideal,
             total_step_count |-> total_step_count,
             steps_taken |-> 0]

\* ------------------------------------------------------ the step loop
\* LinearAxis_is_moving (linear_axis.h)
LinearAxis_is_moving(mv) == mv.total_step_count > 0

\* Stepper_step: one pulse, the counter follows the latched direction
Stepper_step(s) == [s EXCEPT !.total_steps = @ + s.direction]

\* A direct_step that declares the move finished one step early.
LinearAxis_direct_step_EndsEarly(mv, s1, s2) ==
    IF mv.total_step_count = 0
    THEN [move |-> mv, stepper |-> s1, stepper2 |-> s2, pulsed |-> FALSE]
    ELSE LET taken == mv.steps_taken + 1
         IN [move |-> IF taken >= mv.total_step_count - 1
                      THEN ZeroMove
                      ELSE [mv EXCEPT !.steps_taken = taken],
             stepper |-> Stepper_step(s1),
             stepper2 |-> IF s2.present THEN Stepper_step(s2) ELSE s2,
             pulsed |-> TRUE]

\* A direct_step that never replaces a finished plan by the zero plan.
LinearAxis_direct_step_NeverClears(mv, s1, s2) ==
    IF mv.total_step_count = 0
    THEN [move |-> mv, stepper |-> s1, stepper2 |-> s2, pulsed |-> FALSE]
    ELSE [move |-> IF mv.steps_taken + 1 < mv.total_step_count
                   THEN [mv EXCEPT !.steps_taken = @ + 1]
                   ELSE mv,
          stepper |-> Stepper_step(s1),
          stepper2 |-> IF s2.present THEN Stepper_step(s2) ELSE s2,
          pulsed |-> TRUE]

\* A direct_step without the early return on an idle axis.
LinearAxis_direct_step_NoIdleCheck(mv, s1, s2) ==
    LET taken == mv.steps_taken + 1
    IN [move |-> IF taken = mv.total_step_count
                 THEN ZeroMove
                 ELSE [mv EXCEPT !.steps_taken = taken],
        stepper |-> Stepper_step(s1),
        stepper2 |-> IF s2.present THEN Stepper_step(s2) ELSE s2,
        pulsed |-> TRUE]

\* LinearAxis_direct_step: the move and the drivers after the call, and
\* whether a pulse was emitted.
LinearAxis_direct_step(mv, s1, s2) ==
    IF mv.total_step_count = 0
    THEN [move |-> mv, stepper |-> s1, stepper2 |-> s2, pulsed |-> FALSE]
    ELSE LET taken == mv.steps_taken + 1
         IN [move |-> IF taken = mv.total_step_count
                      THEN ZeroMove
                      ELSE [mv EXCEPT !.steps_taken = taken],
             stepper |-> Stepper_step(s1),
             stepper2 |-> IF s2.present THEN Stepper_step(s2) ELSE s2,
             pulsed |-> TRUE]

\* microseconds per step at a step rate whose square is rate2 (steps/s)^2:
\* (int64_t)(1000000 / sqrtf(rate2)), 1 ms when the velocity is zero.
IntervalOfRate2(rate2) ==
    IF rate2 > 0 THEN 10000000 \div ISqrt(100 * rate2) ELSE 1000

\* A calculate_step_interval without the upper clamp at 5 ms.
LinearAxis_calculate_step_interval_NoClamp(mv, v, a, spm) ==
    IF mv.steps_taken < mv.accel_step_count
    THEN IntervalOfRate2(2 * mv.steps_taken * a * spm)
    ELSE IF mv.steps_taken < mv.accel_step_count + mv.coast_step_count
    THEN IF v > 0 THEN 1000000 \div (v * spm) ELSE 1000
    ELSE IntervalOfRate2(2 * (mv.total_step_count - mv.steps_taken) * a * spm)

\* LinearAxis_calculate_step_interval
LinearAxis_calculate_step_interval(mv, v, a, spm) ==
    LET step_time_us ==
            IF mv.steps_taken < mv.accel_step_count
            THEN IntervalOfRate2(2 * mv.steps_taken * a * spm)
            ELSE IF mv.steps_taken < mv.accel_step_count + mv.coast_step_count
            THEN IF v > 0 THEN 1000000 \div (v * spm) ELSE 1000
            ELSE IntervalOfRate2(2 * (mv.total_step_count - mv.steps_taken) * a * spm)
    IN IF step_time_us > 5000 THEN 5000 ELSE step_time_us

\* A timed_step that follows the schedule: when it comes a whole interval
\* late it counts the missed step as taken without pulsing it.
LinearAxis_timed_step_SkipsWhenLate(mv, s1, s2, interval, next_at, t, v, a, spm) ==
    IF next_at - t > 0
    THEN [move |-> mv, stepper |-> s1, stepper2 |-> s2, pulsed |-> FALSE,
          interval |-> interval, next_at |-> next_at, due |-> FALSE]
    ELSE LET d == LinearAxis_direct_step(mv, s1, s2)
             m2 == IF t - next_at >= interval
                   THEN LinearAxis_direct_step(d.move, s1, s2).move
                   ELSE d.move
             i == LinearAxis_calculate_step_interval(m2, v, a, spm)
         IN [move |-> m2, stepper |-> d.stepper, stepper2 |-> d.stepper2,
             pulsed |-> d.pulsed, interval |-> i, next_at |-> t + i, due |-> TRUE]

\* A timed_step that arms the next deadline from the previous deadline (the
\* desired schedule) instead of from the current time.
LinearAxis_timed_step_FromSchedule(mv, s1, s2, interval, next_at, t, v, a, spm) ==
    IF next_at - t > 0
    THEN [move |-> mv, stepper |-> s1, stepper2 |-> s2, pulsed |-> FALSE,
          interval |-> interval, next_at |-> next_at, due |-> FALSE]
    ELSE LET d == LinearAxis_direct_step(mv, s1, s2)
             i == LinearAxis_calculate_step_interval(d.move, v, a, spm)
         IN [move |-> d.move, stepper |-> d.stepper, stepper2 |-> d.stepper2,
             pulsed |-> d.pulsed, interval |-> i, next_at |-> next_at + i,
             due |-> TRUE]

\* A timed_step that catches up: when it comes a whole interval late it
\* steps twice in the same call.
LinearAxis_timed_step_CatchesUp(mv, s1, s2, interval, next_at, t, v, a, spm) ==
    IF next_at - t > 0
    THEN [move |-> mv, stepper |-> s1, stepper2 |-> s2, pulsed |-> FALSE,
          interval |-> interval, next_at |-> next_at, due |-> FALSE]
    ELSE LET d1 == LinearAxis_direct_step(mv, s1, s2)
             d == IF t - next_at >= interval
                  THEN LinearAxis_direct_step(d1.move, d1.stepper, d1.stepper2)
                  ELSE d1
             i == LinearAxis_calculate_step_interval(d.move, v, a, spm)
         IN [move |-> d.move, stepper |-> d.stepper, stepper2 |-> d.stepper2,
             pulsed |-> d1.pulsed, interval |-> i, next_at |-> t + i, due |-> TRUE]

\* A timed_step that computes the interval before it steps, from the
\* position the step starts at.
LinearAxis_timed_step_IntervalBeforeStep(mv, s1, s2, interval, next_at, t, v, a, spm) ==
    IF next_at - t > 0
    THEN [move |-> mv, stepper |-> s1, stepper2 |-> s2, pulsed |-> FALSE,
          interval |-> interval, next_at |-> next_at, due |-> FALSE]
    ELSE LET d == LinearAxis_direct_step(mv, s1, s2)
             i == LinearAxis_calculate_step_interval(mv, v, a, spm)
         IN [move |-> d.move, stepper |-> d.stepper, stepper2 |-> d.stepper2,
             pulsed |-> d.pulsed, interval |-> i, next_at |-> t + i, due |-> TRUE]

\* LinearAxis_timed_step: the state after one call at time t.
LinearAxis_timed_step(mv, s1, s2, interval, next_at, t, v, a, spm) ==
    IF next_at - t > 0
    THEN [move |-> mv, stepper |-> s1, stepper2 |-> s2, pulsed |-> FALSE,
          interval |-> interval, next_at |-> next_at, due |-> FALSE]
    ELSE LET d == LinearAxis_direct_step(mv, s1, s2)
             i == LinearAxis_calculate_step_interval(d.move, v, a, spm)
         IN [move |-> d.move, stepper |-> d.stepper, stepper2 |-> d.stepper2,
             pulsed |-> d.pulsed, interval |-> i, next_at |-> t + i, due |-> TRUE]

\* The effect of one timed_step call of the running thread on the state.
TimedStepEffect ==
    LET r == LinearAxis_timed_step(_current_move, stepper, stepper2, _step_interval,
                                   _next_step_at, now, velocity_mm_s,
                                   acceleration_mm_s2, steps_per_mm)
    IN /\ _current_move' = r.move
       /\ stepper' = r.stepper
       /\ stepper2' = r.stepper2
       /\ _step_interval' = r.interval
       /\ _next_step_at' = r.next_at
       /\ pulses' = IF r.pulsed THEN pulses + 1 ELSE pulses
       /\ late' = (late \/ (r.due /\ now - _next_step_at >= 10000))

\* A start_move that latches the direction on the primary driver only.
StartMoveEffect_PrimaryOnly(dest_mm, s1, v, a) ==
    LET move == LinearAxis_calculate_move(dest_mm, s1.total_steps, v, a, steps_per_mm)
    IN /\ stepper' = [s1 EXCEPT !.direction = move.direction]
       /\ stepper2' = stepper2
       /\ _current_move' = move
       /\ _step_interval' = 100
       /\ _next_step_at' = now + 100
       /\ plan' = move
       /\ origin' = s1.total_steps
       /\ pulses' = 0
       /\ stopped' = FALSE
       /\ late' = FALSE

\* LinearAxis_start_move(m, LinearAxis_calculate_move(m, dest_mm)) with the
\* driver counter total_steps and kinematics v, a.
StartMoveEffect(dest_mm, s1, v, a) ==
    LET move == LinearAxis_calculate_move(dest_mm, s1.total_steps, v, a, steps_per_mm)
    IN /\ stepper' = [s1 EXCEPT !.direction = move.direction]
       /\ stepper2' = IF stepper2.present
                      THEN [stepper2 EXCEPT !.direction = move.direction]
                      ELSE stepper2
       /\ _current_move' = move
       /\ _step_interval' = 100
       /\ _next_step_at' = now + 100
       /\ plan' = move
       /\ origin' = s1.total_steps
       /\ pulses' = 0
       /\ stopped' = FALSE
       /\ late' = FALSE

\* ------------------------------------------------------------- initial
Init ==
    /\ steps_per_mm \in StepsPerMmSet
    /\ velocity_mm_s \in VelocitySet
    /\ acceleration_mm_s2 \in AccelerationSet
    /\ homing_velocity_mm_s \in HomingVelocitySet
    /\ homing_acceleration_mm_s2 \in HomingAccelerationSet
    /\ homing_direction \in HomingDirectionSet
    /\ homing_distance_mm \in HomingDistanceSet
    /\ homing_bounce_mm \in HomingBounceSet
    /\ _current_move = ZeroMove
    /\ _step_interval = 0
    /\ _next_step_at = 0
    /\ stepper = [total_steps |-> 0, direction |-> 1]
    /\ stallguard = FALSE
    /\ \E p \in Stepper2Set :
           stepper2 = [present |-> p, total_steps |-> 0, direction |-> 1]
    /\ now = 0
    /\ pc = "main"
    /\ homing = "none"
    /\ old_velocity = 0
    /\ old_acceleration = 0
    /\ check_for_stall = FALSE
    /\ op = "init"
    /\ trigger = FALSE
    /\ plan = ZeroMove
    /\ origin = 0
    /\ pulses = 0
    /\ stopped = FALSE
    /\ late = FALSE
    /\ entry_velocity = 0
    /\ entry_acceleration = 0

\* ------------------------------------------------- the caller's operations
\* start_move(calculate_move(dest_mm)) from the command loop
Move(dest_mm) ==
    /\ pc = "main"
    /\ StartMoveEffect(dest_mm, stepper, velocity_mm_s, acceleration_mm_s2)
    /\ op' = "start_move"
    /\ UNCHANGED <<axis_vars, stallguard, world_vars, home_vars, trigger, entry_vars>>

\* one poll of timed_step from the command loop
TimedStep ==
    /\ pc = "main"
    /\ TimedStepEffect
    /\ op' = "timed_step"
    /\ UNCHANGED <<axis_vars, stallguard, world_vars, home_vars, trigger, plan,
                   origin, stopped, entry_vars>>

\* LinearAxis_stop (linear_axis.h)
Stop ==
    /\ pc = "main"
    /\ _current_move' = ZeroMove
    /\ stopped' = TRUE
    /\ op' = "stop"
    /\ UNCHANGED <<axis_vars, _step_interval, _next_step_at, driver_vars,
                   world_vars, home_vars, trigger, plan, origin, pulses, late,
                   entry_vars>>

\* ------------------------------------------------------------- homing
InSeek == pc \in {"seek", "reseek"}
AtBreak == pc \in {"seek_break", "reseek_break"}

\* LinearAxis_sensorless_home up to the loop of the first stallguard_seek
SensorlessHomeBegin ==
    /\ pc = "main"
    /\ old_velocity' = velocity_mm_s
    /\ old_acceleration' = acceleration_mm_s2
    /\ velocity_mm_s' = homing_velocity_mm_s
    /\ acceleration_mm_s2' = homing_acceleration_mm_s2
    /\ stallguard' = FALSE
    /\ StartMoveEffect(homing_direction * homing_distance_mm,
                       [stepper EXCEPT !.total_steps = 0],
                       homing_velocity_mm_s, homing_acceleration_mm_s2)
    /\ check_for_stall' = FALSE
    /\ pc' = "seek"
    /\ homing' = "stall"
    /\ op' = "home_begin"
    /\ trigger' = FALSE
    /\ entry_velocity' = velocity_mm_s
    /\ entry_acceleration' = acceleration_mm_s2
    /\ UNCHANGED <<cfg_vars, world_vars>>

\* A stallguard_seek loop that asks Stepper_stalled from its first
\* iteration, without waiting for the ramp to complete.
StallguardSeekIter_AlwaysChecks(stalled) ==
    /\ InSeek
    /\ homing = "stall"
    /\ TimedStepEffect
    /\ LET armed == _current_move'.steps_taken = _current_move'.accel_step_count
       IN /\ stallguard' = IF armed THEN TRUE ELSE stallguard
          /\ check_for_stall' = IF armed THEN TRUE ELSE check_for_stall
    /\ trigger' = stalled
    /\ pc' = IF trigger'
             THEN (IF pc = "seek" THEN "seek_break" ELSE "reseek_break")
             ELSE pc
    /\ op' = "seek_iter"
    /\ UNCHANGED <<axis_vars, world_vars, homing, old_velocity, old_acceleration,
                   plan, origin, stopped, entry_vars>>

\* one iteration of the while (true) loop of stallguard_seek; stalled is
\* what Stepper_stalled returns if it is asked
StallguardSeekIter(stalled) ==
    /\ InSeek
    /\ homing = "stall"
    /\ TimedStepEffect
    /\ LET armed == _current_move'.steps_taken = _current_move'.accel_step_count
       IN /\ stallguard' = IF armed THEN TRUE ELSE stallguard
          /\ check_for_stall' = IF armed THEN TRUE ELSE check_for_stall
    /\ trigger' = (check_for_stall' /\ stalled)
    /\ pc' = IF trigger'
             THEN (IF pc = "seek" THEN "seek_break" ELSE "reseek_break")
             ELSE pc
    /\ op' = "seek_iter"
    /\ UNCHANGED <<axis_vars, world_vars, homing, old_velocity, old_acceleration,
                   plan, origin, stopped, entry_vars>>

\* LinearAxis_endstop_home up to the loop of the first endstop_seek
EndstopHomeBegin ==
    /\ pc = "main"
    /\ old_velocity' = velocity_mm_s
    /\ old_acceleration' = acceleration_mm_s2
    /\ velocity_mm_s' = homing_velocity_mm_s
    /\ acceleration_mm_s2' = homing_acceleration_mm_s2
    /\ StartMoveEffect(homing_direction * homing_distance_mm,
                       [stepper EXCEPT !.total_steps = 0],
                       homing_velocity_mm_s, homing_acceleration_mm_s2)
    /\ pc' = "seek"
    /\ homing' = "endstop"
    /\ op' = "home_begin"
    /\ trigger' = FALSE
    /\ entry_velocity' = velocity_mm_s
    /\ entry_acceleration' = acceleration_mm_s2
    /\ UNCHANGED <<cfg_vars, stallguard, world_vars, check_for_stall>>

\* An endstop_seek loop that also ends when the seek move has completed:
\* while (gpio_get(m->endstop) != 1 && LinearAxis_is_moving(m)).
EndstopSeekIter_StopsWhenIdle(level) ==
    /\ InSeek
    /\ homing = "endstop"
    /\ trigger' = (level = 1)
    /\ IF level # 1 /\ LinearAxis_is_moving(_current_move)
       THEN /\ TimedStepEffect
            /\ pc' = pc
       ELSE /\ pc' = (IF pc = "seek" THEN "seek_break" ELSE "reseek_break")
            /\ UNCHANGED <<move_vars, stepper, stepper2, pulses, late>>
    /\ op' = "seek_iter"
    /\ UNCHANGED <<axis_vars, stallguard, world_vars, homing, old_velocity,
                   old_acceleration, check_for_stall, plan, origin, stopped,
                   entry_vars>>

\* An endstop_seek written as do { timed_step } while (gpio_get != 1): the
\* step comes before the endstop is read.
EndstopSeekIter_StepThenRead(level) ==
    /\ InSeek
    /\ homing = "endstop"
    /\ trigger' = (level = 1)
    /\ TimedStepEffect
    /\ pc' = IF level # 1 THEN pc
             ELSE (IF pc = "seek" THEN "seek_break" ELSE "reseek_break")
    /\ op' = "seek_iter"
    /\ UNCHANGED <<axis_vars, stallguard, world_vars, homing, old_velocity,
                   old_acceleration, check_for_stall, plan, origin, stopped,
                   entry_vars>>

\* one evaluation of the loop condition of endstop_seek, and its body;
\* level is what gpio_get(m->endstop) returns
EndstopSeekIter(level) ==
    /\ InSeek
    /\ homing = "endstop"
    /\ trigger' = (level = 1)
    /\ IF level # 1
       THEN /\ TimedStepEffect
            /\ pc' = pc
       ELSE /\ pc' = (IF pc = "seek" THEN "seek_break" ELSE "reseek_break")
            /\ UNCHANGED <<move_vars, stepper, stepper2, pulses, late>>
    /\ op' = "seek_iter"
    /\ UNCHANGED <<axis_vars, stallguard, world_vars, homing, old_velocity,
                   old_acceleration, check_for_stall, plan, origin, stopped,
                   entry_vars>>

\* A seek that ends without Stepper_disable_stallguard.
SeekFinish_NoDisable ==
    /\ AtBreak
    /\ _current_move' = ZeroMove
    /\ stopped' = TRUE
    /\ stepper' = [stepper EXCEPT !.total_steps = 0]
    /\ pc' = IF pc = "seek_break" THEN "zeroed" ELSE "rezeroed"
    /\ op' = "seek_finish"
    /\ UNCHANGED <<axis_vars, _step_interval, _next_step_at, stepper2, stallguard,
                   world_vars, homing, old_velocity, old_acceleration,
                   check_for_stall, trigger, plan, origin, pulses, late, entry_vars>>

\* A seek that stops the move but leaves the step counter as it is.
SeekFinish_NoReset ==
    /\ AtBreak
    /\ _current_move' = ZeroMove
    /\ stopped' = TRUE
    /\ stallguard' = IF homing = "stall" THEN FALSE ELSE stallguard
    /\ pc' = IF pc = "seek_break" THEN "zeroed" ELSE "rezeroed"
    /\ op' = "seek_finish"
    /\ UNCHANGED <<axis_vars, _step_interval, _next_step_at, stepper, stepper2,
                   world_vars, homing, old_velocity, old_acceleration,
                   check_for_stall, trigger, plan, origin, pulses, late, entry_vars>>

\* the end of a seek: LinearAxis_stop, LinearAxis_reset_position and, in
\* stallguard_seek, Stepper_disable_stallguard
SeekFinish ==
    /\ AtBreak
    /\ _current_move' = ZeroMove
    /\ stopped' = TRUE
    /\ stepper' = [stepper EXCEPT !.total_steps = 0]
    /\ stallguard' = IF homing = "stall" THEN FALSE ELSE stallguard
    /\ pc' = IF pc = "seek_break" THEN "zeroed" ELSE "rezeroed"
    /\ op' = "seek_finish"
    /\ UNCHANGED <<axis_vars, _step_interval, _next_step_at, stepper2, world_vars,
                   homing, old_velocity, old_acceleration, check_for_stall,
                   trigger, plan, origin, pulses, late, entry_vars>>

\* phase 2: start the bounce move
BounceStart ==
    /\ pc = "zeroed"
    /\ StartMoveEffect(-(homing_direction * homing_bounce_mm), stepper,
                       velocity_mm_s, acceleration_mm_s2)
    /\ pc' = "bounce"
    /\ op' = "start_move"
    /\ UNCHANGED <<axis_vars, stallguard, world_vars, homing, old_velocity,
                   old_acceleration, check_for_stall, trigger, entry_vars>>

\* phase 2: one iteration of while (LinearAxis_is_moving(m)) timed_step
BounceIter ==
    /\ pc = "bounce"
    /\ LinearAxis_is_moving(_current_move)
    /\ TimedStepEffect
    /\ op' = "timed_step"
    /\ UNCHANGED <<axis_vars, stallguard, world_vars, home_vars, trigger, plan,
                   origin, stopped, entry_vars>>

\* kinematics of the re-seek: the homing values, in endstop_home slowed down
ReseekVelocity == IF homing = "endstop" THEN homing_velocity_mm_s \div 5
                  ELSE homing_velocity_mm_s
ReseekAcceleration == IF homing = "endstop" THEN homing_acceleration_mm_s2 \div 2
                      ELSE homing_acceleration_mm_s2

\* A re-seek that starts without waiting for the bounce move to finish.
ReseekBegin_NoWait ==
    /\ pc = "bounce"
    /\ velocity_mm_s' = ReseekVelocity
    /\ acceleration_mm_s2' = ReseekAcceleration
    /\ stallguard' = IF homing = "stall" THEN FALSE ELSE stallguard
    /\ StartMoveEffect(homing_direction * homing_bounce_mm * 2, stepper,
                       ReseekVelocity, ReseekAcceleration)
    /\ check_for_stall' = FALSE
    /\ pc' = "reseek"
    /\ op' = "start_move"
    /\ trigger' = FALSE
    /\ UNCHANGED <<cfg_vars, world_vars, homing, old_velocity, old_acceleration,
                   entry_vars>>

\* A re-seek whose destination is one bounce distance, not two.
ReseekBegin_SingleBounce ==
    /\ pc = "bounce"
    /\ ~LinearAxis_is_moving(_current_move)
    /\ velocity_mm_s' = ReseekVelocity
    /\ acceleration_mm_s2' = ReseekAcceleration
    /\ stallguard' = IF homing = "stall" THEN FALSE ELSE stallguard
    /\ StartMoveEffect(homing_direction * homing_bounce_mm, stepper,
                       ReseekVelocity, ReseekAcceleration)
    /\ check_for_stall' = FALSE
    /\ pc' = "reseek"
    /\ op' = "start_move"
    /\ trigger' = FALSE
    /\ UNCHANGED <<cfg_vars, world_vars, homing, old_velocity, old_acceleration,
                   entry_vars>>

\* phase 3: the bounce loop ends, the second seek starts
ReseekBegin ==
    /\ pc = "bounce"
    /\ ~LinearAxis_is_moving(_current_move)
    /\ velocity_mm_s' = ReseekVelocity
    /\ acceleration_mm_s2' = ReseekAcceleration
    /\ stallguard' = IF homing = "stall" THEN FALSE ELSE stallguard
    /\ StartMoveEffect(homing_direction * homing_bounce_mm * 2, stepper,
                       ReseekVelocity, ReseekAcceleration)
    /\ check_for_stall' = FALSE
    /\ pc' = "reseek"
    /\ op' = "start_move"
    /\ trigger' = FALSE
    /\ UNCHANGED <<cfg_vars, world_vars, homing, old_velocity, old_acceleration,
                   entry_vars>>

\* A return from homing that restores the velocity but not the acceleration.
HomeReturn_KeepsAcceleration ==
    /\ pc = "rezeroed"
    /\ velocity_mm_s' = old_velocity
    /\ acceleration_mm_s2' = acceleration_mm_s2
    /\ pc' = "main"
    /\ homing' = "none"
    /\ op' = "home_return"
    /\ UNCHANGED <<cfg_vars, move_vars, driver_vars, world_vars, old_velocity,
                   old_acceleration, check_for_stall, trigger, move_hist, entry_vars>>

\* the homing routine restores the kinematics and returns
HomeReturn ==
    /\ pc = "rezeroed"
    /\ velocity_mm_s' = old_velocity
    /\ acceleration_mm_s2' = old_acceleration
    /\ pc' = "main"
    /\ homing' = "none"
    /\ op' = "home_return"
    /\ UNCHANGED <<cfg_vars, move_vars, driver_vars, world_vars, old_velocity,
                   old_acceleration, check_for_stall, trigger, move_hist, entry_vars>>

\* ------------------------------------------------------------ the world
\* the monotonic clock advances
Tick(d) ==
    /\ now + d <= MaxTime
    /\ now' = now + d
    /\ UNCHANGED <<axis_vars, move_vars, driver_vars, home_vars, hist_vars>>

Next ==
    \/ \E d \in -MaxDest..MaxDest : Move(d)
    \/ TimedStep
    \/ Stop
    \/ SensorlessHomeBegin
    \/ \E stalled \in BOOLEAN : StallguardSeekIter(stalled)
    \/ EndstopHomeBegin
    \/ \E level \in {0, 1} : EndstopSeekIter(level)
    \/ SeekFinish
    \/ BounceStart
    \/ BounceIter
    \/ ReseekBegin
    \/ HomeReturn
    \/ \E d \in TickSet : Tick(d)

Spec == Init /\ [][Next]_vars

\* ------------------------------------------------------- wait_for_move
\* LinearAxis_wait_for_move is called: it returns at once on an idle axis,
\* otherwise it enters its polling loop
WaitForMoveBegin ==
    /\ pc = "main"
    /\ now <= MaxStart
    /\ pc' = IF LinearAxis_is_moving(_current_move) THEN "wait" ELSE "main"
    /\ op' = IF LinearAxis_is_moving(_current_move) THEN "wait_begin" ELSE "wait_return"
    /\ UNCHANGED <<axis_vars, move_vars, driver_vars, world_vars, homing,
                   old_velocity, old_acceleration, check_for_stall, trigger,
                   move_hist, entry_vars>>

\* one iteration of while (LinearAxis_is_moving(m)) LinearAxis_timed_step(m)
WaitForMoveIter ==
    /\ pc = "wait"
    /\ LinearAxis_is_moving(_current_move)
    /\ TimedStepEffect
    /\ op' = "timed_step"
    /\ UNCHANGED <<axis_vars, stallguard, world_vars, home_vars, trigger, plan,
                   origin, stopped, entry_vars>>

\* the loop condition fails: wait_for_move reports and returns
WaitForMoveReturn ==
    /\ pc = "wait"
    /\ ~LinearAxis_is_moving(_current_move)
    /\ pc' = "main"
    /\ op' = "wait_return"
    /\ UNCHANGED <<axis_vars, move_vars, driver_vars, world_vars, homing,
                   old_velocity, old_acceleration, check_for_stall, trigger,
                   move_hist, entry_vars>>

\* the monotonic clock advances while a thread polls in wait_for_move
WaitClock(d) ==
    /\ pc = "wait"
    /\ now - _next_step_at < MaxLate
    /\ now + d <= MaxStart + MaxWait
    /\ now' = now + d
    /\ UNCHANGED <<axis_vars, move_vars, driver_vars, home_vars, hist_vars>>

NextLive ==
    \/ \E d \in -MaxDest..MaxDest : Move(d)
    \/ WaitForMoveBegin
    \/ WaitForMoveIter
    \/ WaitForMoveReturn
    \/ \E d \in TickSet : WaitClock(d)

\* The polling loop keeps running and the clock keeps advancing.
SpecLive ==
    /\ Init
    /\ [][NextLive]_vars
    /\ WF_vars(WaitForMoveIter)
    /\ WF_vars(WaitForMoveReturn)
    /\ WF_vars(\E d \in TickSet : WaitClock(d))

\* ================================================================ claims
\* The move installed by the last start_move has run to completion: the
\* plan had steps, the axis is idle again and stop() was not called.
Completed == /\ plan.total_step_count > 0
             /\ ~LinearAxis_is_moving(_current_move)
             /\ ~stopped

\* The plan is the one of a move long enough to reach full velocity.
NormalPlan(p) == /\ p.accel_step_count = p.decel_step_count
                 /\ p.coast_step_count > 0

\* The plan is the one of a move shortened for lack of a coast phase.
ShortenedPlan(p) == /\ p.coast_step_count = 0
                    /\ p.accel_step_count = p.total_step_count \div 2
                    /\ p.decel_step_count = p.total_step_count - p.accel_step_count

\* C1: every plan returned by LinearAxis_calculate_move is well formed: the
\* four counts are >= 0, accel + coast + decel = total, and the plan is either
\* the normal one (accel = decel, coast > 0) or the shortened one (coast = 0,
\* accel = total / 2, decel = total - accel).
C1_PlanWellFormed ==
    /\ plan.accel_step_count >= 0
    /\ plan.coast_step_count >= 0
    /\ plan.decel_step_count >= 0
    /\ plan.total_step_count >= 0
    /\ plan.accel_step_count + plan.coast_step_count + plan.decel_step_count
           = plan.total_step_count
    /\ NormalPlan(plan) \/ ShortenedPlan(plan)

\* C1 witness: start_move installed a shortened plan of an odd number of
\* steps, three or more, split 1 + 2 or wider.
C1_Witness ==
    /\ op = "start_move"
    /\ plan.total_step_count >= 3
    /\ plan.total_step_count % 2 = 1
    /\ plan.coast_step_count = 0
    /\ plan.decel_step_count = plan.accel_step_count + 1

\* C2: while stop() has not been called, the driver's total_steps has moved
\* from its value at start_move by direction for every pulse emitted, and a
\* move that has run to completion has moved it by direction *
\* total_step_count.
C2_NetChange ==
    ~stopped =>
        /\ stepper.total_steps - origin = plan.direction * pulses
        /\ Completed =>
               stepper.total_steps - origin = plan.direction * plan.total_step_count

\* C2 witness: a move of three or more steps in the negative direction has
\* run to completion.
C2_Witness ==
    /\ Completed
    /\ plan.direction = -1
    /\ plan.total_step_count >= 3
    /\ stepper.total_steps = origin - plan.total_step_count

\* C3: whatever the interleaving of clock advances and timed_step calls, a
\* move never emits more pulses than total_step_count, emits one pulse for
\* every step taken while it is in flight, and has emitted exactly
\* total_step_count pulses when it has run to completion.
C3_PulsesIndependentOfTiming ==
    /\ pulses <= plan.total_step_count
    /\ (~stopped /\ LinearAxis_is_moving(_current_move)) =>
           pulses = _current_move.steps_taken
    /\ Completed => pulses = plan.total_step_count

\* C3 witness: a move of two or more steps ran to completion although one of
\* its ticks came 10 ms or more after its deadline.
C3_Witness ==
    /\ Completed
    /\ late
    /\ plan.total_step_count >= 2
    /\ pulses = plan.total_step_count

\* One evaluation of a seek loop (either homing routine).
SeekIter == \/ \E stalled \in BOOLEAN : StallguardSeekIter(stalled)
            \/ \E level \in {0, 1} : EndstopSeekIter(level)

\* C4 as claimed: once the seek move has completed without a trigger, the
\* next evaluation of the seek loop ends the seek.
C4_SeekEndsWhenMoveCompletes ==
    [][(SeekIter /\ ~LinearAxis_is_moving(_current_move)) => ~InSeek']_vars

\* C4 as amended: a seek ends only in an evaluation of its loop that observes
\* the trigger (Stepper_stalled true with detection armed, or gpio_get = 1);
\* every evaluation that does not observe it stays in the seek, whether or
\* not the seek move has completed, so homing does not return without it.
C4_SeekEndsOnlyOnTrigger ==
    [][(InSeek => (IF SeekIter /\ trigger' THEN AtBreak' ELSE pc' = pc))
       /\ (op' = "home_return" /\ op # "home_return" => trigger)]_vars

\* C4 witness: the seek move has emitted all its steps, the axis is idle,
\* the loop has been evaluated since without seeing the trigger, and the
\* routine is still in the seek.
C4_Witness ==
    /\ InSeek
    /\ op = "seek_iter"
    /\ ~trigger
    /\ ~LinearAxis_is_moving(_current_move)
    /\ pulses = plan.total_step_count
    /\ _step_interval = 1000

\* C5: in stallguard_seek, an iteration that leaves steps_taken below
\* accel_step_count keeps the seek going and stall detection disabled even
\* when Stepper_stalled would return true; detection is enabled, and the
\* loop left, only with steps_taken at or beyond accel_step_count.
C5_NoStallExitDuringRamp ==
    [][(StallguardSeekIter(TRUE)
           /\ _current_move'.steps_taken < _current_move'.accel_step_count)
          => (pc' = pc /\ ~stallguard' /\ ~check_for_stall')]_vars

\* C5 witness: a stall-based seek is inside its ramp after an iteration that
\* emitted a pulse.
C5_Witness ==
    /\ homing = "stall"
    /\ InSeek
    /\ op = "seek_iter"
    /\ pulses >= 1
    /\ _current_move.steps_taken < _current_move.accel_step_count
    /\ ~stallguard

\* C6: when a homing routine returns, the axis is idle with the zero plan and
\* the primary driver's total_steps is 0.
C6_HomedAtZero ==
    op = "home_return" =>
        /\ _current_move = ZeroMove
        /\ ~LinearAxis_is_moving(_current_move)
        /\ stepper.total_steps = 0

\* C6 witness: a homing routine has returned after a re-seek that emitted
\* pulses.
C6_Witness ==
    /\ op = "home_return"
    /\ pc = "main"
    /\ pulses >= 1

\* C7: when a homing routine returns, velocity_mm_s and acceleration_mm_s2
\* are what they were on entry; while it runs they are the homing values,
\* and from the re-seek of endstop_home on the homing velocity / 5 and
\* the homing acceleration / 2.
C7_KinematicsRestored ==
    /\ op = "home_return" =>
           /\ velocity_mm_s = entry_velocity
           /\ acceleration_mm_s2 = entry_acceleration
    /\ pc \in {"seek", "seek_break", "zeroed", "bounce"} =>
           /\ velocity_mm_s = homing_velocity_mm_s
           /\ acceleration_mm_s2 = homing_acceleration_mm_s2
    /\ pc \in {"reseek", "reseek_break", "rezeroed"} =>
           /\ velocity_mm_s = (IF homing = "endstop"
                               THEN homing_velocity_mm_s \div 5
                               ELSE homing_velocity_mm_s)
           /\ acceleration_mm_s2 = (IF homing = "endstop"
                                    THEN homing_acceleration_mm_s2 \div 2
                                    ELSE homing_acceleration_mm_s2)

\* C7 witness: a homing routine has returned and the kinematics differ from
\* the homing values it ran with.
C7_Witness ==
    /\ op = "home_return"
    /\ velocity_mm_s = entry_velocity
    /\ velocity_mm_s # homing_velocity_mm_s
    /\ acceleration_mm_s2 # homing_acceleration_mm_s2

\* The order of the phases of a homing routine.
PhaseOrder == {<<"main", "seek">>, <<"seek", "seek_break">>,
               <<"seek_break", "zeroed">>, <<"zeroed", "bounce">>,
               <<"bounce", "reseek">>, <<"reseek", "reseek_break">>,
               <<"reseek_break", "rezeroed">>, <<"rezeroed", "main">>}

\* C8: a homing routine moves from phase to phase only in the order seek,
\* stop + re-zero, bounce, re-seek, stop + re-zero, return; the bounce move
\* starts only after the first seek saw its trigger and the position was
\* re-zeroed, and the re-seek starts only when the bounce move has emitted
\* all its steps and the axis is idle.
C8_PhaseOrder ==
    [][/\ pc' # pc => <<pc, pc'>> \in PhaseOrder
       /\ (pc' = "bounce" /\ pc # "bounce") =>
              /\ trigger
              /\ stopped
              /\ stepper.total_steps = 0
              /\ ~LinearAxis_is_moving(_current_move)
       /\ (pc' = "reseek" /\ pc # "reseek") =>
              /\ ~LinearAxis_is_moving(_current_move)
              /\ ~stopped
              /\ pulses = plan.total_step_count]_vars

\* C8 witness: a homing routine has reached its re-seek after a bounce move
\* that stepped back from the re-zeroed position.
C8_Witness ==
    /\ pc = "reseek"
    /\ op = "start_move"
    /\ origin * homing_direction < 0
    /\ plan.direction = homing_direction

\* C9: after start_move of a plan with total_step_count = 0 the axis is
\* idle, and it stays idle with no pulse emitted and total_steps unchanged
\* whatever number of timed_step calls follow.
C9_ZeroLengthMove ==
    plan.total_step_count = 0 =>
        /\ ~LinearAxis_is_moving(_current_move)
        /\ pulses = 0
        /\ stepper.total_steps = origin

\* C9 witness: away from the origin, start_move installed a plan without
\* steps and a due timed_step has run since.
C9_Witness ==
    /\ plan.total_step_count = 0
    /\ plan.direction = 1
    /\ origin # 0
    /\ op = "timed_step"
    /\ _step_interval = 1000

\* C10: stop() replaces the plan with the zero plan and changes neither
\* driver's total_steps nor, on an idle axis, whether the axis moves or its
\* timing; every timed_step after a stop() (until the next start_move)
\* emits no pulse and leaves the drivers and the zero plan as they are.
C10_StopCancels ==
    [][/\ Stop =>
              /\ _current_move' = ZeroMove
              /\ stepper' = stepper
              /\ stepper2' = stepper2
              /\ <<_step_interval, _next_step_at>>' = <<_step_interval, _next_step_at>>
       /\ (stopped /\ TimedStep) =>
              /\ pulses' = pulses
              /\ stepper' = stepper
              /\ stepper2' = stepper2
              /\ _current_move = ZeroMove
              /\ _current_move' = ZeroMove]_vars

\* C10 witness: a move was stopped in flight, after its first pulse and
\* before its last, and a due timed_step has run since.
C10_Witness ==
    /\ stopped
    /\ pc = "main"
    /\ op = "timed_step"
    /\ pulses >= 1
    /\ pulses < plan.total_step_count
    /\ _step_interval = 1000
    /\ stepper.total_steps = origin + plan.direction * pulses

\* C11 as claimed: whenever a move is in flight, _next_step_at is a future
\* or current time.
C11_DeadlineNeverPassed ==
    LinearAxis_is_moving(_current_move) => _next_step_at >= now

\* C11 as amended: _next_step_at is a future time when it is armed: every
\* start_move and every due timed_step sets it to the current time plus
\* _step_interval; until the next call the clock may pass it, and a pulse is
\* emitted only at a time at or past it.
C11_DeadlineArmedInFuture ==
    [][/\ _next_step_at' # _next_step_at =>
              /\ _next_step_at' = now' + _step_interval'
              /\ _next_step_at' >= now'
       /\ pulses' = pulses + 1 => now >= _next_step_at]_vars

\* C11 witness: a move is in flight and the clock has passed its deadline
\* after a due timed_step armed it.
C11_Witness ==
    /\ LinearAxis_is_moving(_current_move)
    /\ pulses >= 1
    /\ now > _next_step_at

\* C12: _step_interval is 100 us after start_move and always within
\* 0..5000 us; on an axis that is idle without stop() it is the initial 0,
\* the 100 us of a zero-length start_move or the 1000 us substituted for
\* zero velocity.
C12_IntervalBounded ==
    /\ _step_interval >= 0
    /\ _step_interval <= 5000
    /\ op \in {"start_move", "home_begin"} => _step_interval = 100
    /\ (~LinearAxis_is_moving(_current_move) /\ ~stopped) =>
           _step_interval \in {0, 100, 1000}

\* C12 witness: a move is in flight, has emitted a pulse, and its interval
\* is the 5 ms clamp.
C12_Witness ==
    /\ LinearAxis_is_moving(_current_move)
    /\ pulses >= 1
    /\ _step_interval = 5000

\* C13: steps_taken is always within 0..total_step_count; while a move is
\* in flight a step of the system either emits a pulse and raises
\* steps_taken by exactly 1 (or ends the move at its last step, replacing
\* the plan by the zero plan), or leaves the move as it is, or is a stop()
\* or a new start_move.
C13_StepsTakenMonotone ==
    /\ [](/\ _current_move.steps_taken >= 0
          /\ _current_move.steps_taken <= _current_move.total_step_count)
    /\ [][LinearAxis_is_moving(_current_move) =>
              \/ /\ pulses' = pulses + 1
                 /\ \/ _current_move' =
                          [_current_move EXCEPT !.steps_taken = @ + 1]
                    \/ /\ _current_move' = ZeroMove
                       /\ _current_move.steps_taken + 1
                              = _current_move.total_step_count
              \/ /\ pulses' = pulses
                 /\ _current_move' = _current_move
              \/ op' \in {"start_move", "home_begin", "stop", "seek_finish"}]_vars

\* C13 witness: a move of three or more steps is in flight with two or more
\* steps taken and pulsed, and its next step is not yet due.
C13_Witness ==
    /\ LinearAxis_is_moving(_current_move)
    /\ _current_move.steps_taken >= 2
    /\ _current_move.steps_taken < _current_move.total_step_count
    /\ pulses = _current_move.steps_taken
    /\ op = "timed_step"
    /\ now < _next_step_at

\* C14: a wait_for_move called on a move in flight returns, with the axis
\* idle and every pulse of the plan emitted, provided the clock keeps
\* advancing; inside the loop the axis is moving exactly as long as pulses
\* of the plan are outstanding, the time left to the next deadline is at most
\* 5000 us once a step has been taken (100 us before the first), and the
\* clock of the model never runs out while a move is waited for. Called on
\* an idle axis it returns at once and changes nothing.
C14_WaitForMoveTerminates ==
    /\ (pc = "wait") ~> (pc = "main" /\ ~LinearAxis_is_moving(_current_move)
                           /\ op = "wait_return"
                           /\ pulses = plan.total_step_count)
    /\ [](pc = "wait" =>
              /\ LinearAxis_is_moving(_current_move) <=> pulses < plan.total_step_count
              /\ _next_step_at - now <= 5000
              /\ now + 10000 <= MaxStart + MaxWait)
    /\ [][(WaitForMoveBegin /\ ~LinearAxis_is_moving(_current_move)) =>
              /\ pc' = "main"
              /\ op' = "wait_return"
              /\ UNCHANGED <<move_vars, driver_vars, now, pulses>>]_vars

\* C14 witness: a wait_for_move on a move of two or more steps has returned
\* with the axis idle at the destination.
C14_Witness ==
    /\ pc = "main"
    /\ op = "wait_return"
    /\ ~stopped
    /\ plan.total_step_count >= 2
    /\ pulses = plan.total_step_count
    /\ ~LinearAxis_is_moving(_current_move)
    /\ stepper.total_steps = origin + plan.direction * plan.total_step_count

\* The step target of a destination dest_mm (in 1/MmScale mm).
DestSteps(dest_mm) == CeilDiv(dest_mm * steps_per_mm, MmScale)

\* C15: from every reachable position and for every destination,
\* calculate_move returns direction -1 iff the destination step count is
\* below the driver's total_steps and +1 otherwise (delta = 0 included),
\* with total_step_count = |delta|; after start_move the primary driver
\* holds the plan's direction and a secondary driver, when present, holds
\* the same direction as the primary.
C15_DirectionLatched ==
    /\ \A d \in -MaxDest..MaxDest :
           LET mv == LinearAxis_calculate_move(d, stepper.total_steps, velocity_mm_s,
                                              acceleration_mm_s2, steps_per_mm)
               delta == DestSteps(d) - stepper.total_steps
           IN /\ mv.direction = (IF delta < 0 THEN -1 ELSE 1)
              /\ mv.total_step_count = Abs(delta)
    /\ plan.direction # 0 => stepper.direction = plan.direction
    /\ stepper2.present => stepper2.direction = stepper.direction

\* C15 witness: from a positive position a move to a negative destination is
\* in flight on an axis with two drivers, both latched at -1.
C15_Witness ==
    /\ LinearAxis_is_moving(_current_move)
    /\ stepper2.present
    /\ origin > 0
    /\ plan.total_step_count > origin
    /\ plan.direction = -1
    /\ stepper.direction = -1
    /\ stepper2.direction = -1

\* C16: a call of timed_step before its deadline changes nothing and
\* returns false; a call at
\* or past the deadline, however late, emits exactly one pulse if a move is
\* in flight (none otherwise) and moves total_steps by one step in the
\* latched direction; no step of the system emits more than one pulse.
C16_AtMostOnePulsePerCall ==
    [][/\ (TimedStep \/ BounceIter) =>
              LinearAxis_timed_step(_current_move, stepper, stepper2, _step_interval,
                                    _next_step_at, now, velocity_mm_s,
                                    acceleration_mm_s2, steps_per_mm).due
                  = (now >= _next_step_at)
       /\ (TimedStep \/ BounceIter) =>
              IF now < _next_step_at
              THEN UNCHANGED <<move_vars, stepper, stepper2, pulses>>
              ELSE IF LinearAxis_is_moving(_current_move)
                   THEN /\ pulses' = pulses + 1
                        /\ stepper'.total_steps
                               = stepper.total_steps + stepper.direction
                   ELSE /\ pulses' = pulses
                        /\ stepper' = stepper
       /\ pulses' \in {pulses, pulses + 1, 0}
       /\ \/ Abs(stepper'.total_steps - stepper.total_steps) <= 1
          \/ stepper'.total_steps = 0]_vars

\* C16 witness: the first due timed_step of a move of three or more steps
\* came 10 ms or more (several intervals) after its deadline and emitted one
\* pulse.
C16_Witness ==
    /\ LinearAxis_is_moving(_current_move)
    /\ plan.total_step_count >= 3
    /\ op = "timed_step"
    /\ late
    /\ pulses = 1
    /\ stepper.total_steps = origin + plan.direction

\* the axis is in phase 3 of a homing routine
InReseek == pc \in {"reseek", "reseek_break"}

\* C17 as stated: the re-seek emits at most 2 x homing_bounce_mm x
\* steps_per_mm pulses from the position reached at the end of the bounce.
C17_ReseekWithinTwoBounces ==
    InReseek => pulses * MmScale <= 2 * homing_bounce_mm * steps_per_mm

\* C17: the re-seek move is planned to the absolute destination
\* homing_direction x 2 x homing_bounce_mm of the origin set by the first
\* seek; it starts at the end of the bounce, -homing_direction x
\* homing_bounce_mm, so it runs in the homing direction over the bounce
\* distance plus twice the bounce distance, and its pulses never exceed that
\* plan, whether or not the trigger fires.
C17_ReseekTravel ==
    InReseek =>
        /\ origin = DestSteps(-(homing_direction * homing_bounce_mm))
        /\ plan.direction = homing_direction
        /\ plan.total_step_count
               = Abs(DestSteps(homing_direction * homing_bounce_mm * 2) - origin)
        /\ (plan.total_step_count + 1) * MmScale
               > 3 * homing_bounce_mm * steps_per_mm
        /\ pulses <= plan.total_step_count
        /\ stepper.total_steps = origin + homing_direction * pulses

\* C17 witness: a re-seek that has travelled further than twice the bounce
\* distance from the end of the bounce and is still moving.
C17_Witness ==
    /\ pc = "reseek"
    /\ LinearAxis_is_moving(_current_move)
    /\ pulses * MmScale > 2 * homing_bounce_mm * steps_per_mm
    /\ stepper.total_steps = origin + homing_direction * pulses

\* C18: stall detection is enabled only in stall-based homing, inside a seek
\* loop (or at its exit, before the seek's clean-up) whose move has taken at
\* least accel_step_count steps; it is disabled when a seek starts, from the
\* end of a seek through the whole bounce, and when the routine returns. The
\* bounce loop runs on is_moving alone and never reads the stall flag.
C18_StallguardOnlyInSeekAfterRamp ==
    /\ [](/\ stallguard =>
               /\ homing = "stall"
               /\ InSeek \/ AtBreak
               /\ check_for_stall
               /\ pulses >= plan.accel_step_count
          /\ op = "home_begin" => ~stallguard
          /\ (op = "start_move" /\ pc = "reseek") => ~stallguard
          /\ pc \in {"zeroed", "bounce", "rezeroed"} => ~stallguard
          /\ op = "home_return" => ~stallguard)
    /\ [][(pc = "bounce" /\ pc' # "bounce") =>
              /\ ~LinearAxis_is_moving(_current_move)
              /\ pulses = plan.total_step_count]_vars

\* C18 witness: stall-based homing is in its bounce, the first seek having
\* enabled stall detection and ended on a stall; bounce pulses have been
\* emitted and stall detection is off.
C18_Witness ==
    /\ pc = "bounce"
    /\ homing = "stall"
    /\ check_for_stall
    /\ pulses >= 1
    /\ LinearAxis_is_moving(_current_move)
    /\ ~stallguard

\* a call of timed_step, from any of the loops that poll it, at or past its
\* deadline
DueTimedStep ==
    /\ now >= _next_step_at
    /\ \/ TimedStep
       \/ BounceIter
       \/ \E stalled \in BOOLEAN : StallguardSeekIter(stalled)
       \/ EndstopSeekIter(0)

\* inst_velocity of calculate_step_interval is zero for the movement mv
InstVelocityZero(mv, v) ==
    IF mv.steps_taken < mv.accel_step_count
    THEN mv.steps_taken = 0
    ELSE IF mv.steps_taken < mv.accel_step_count + mv.coast_step_count
    THEN v = 0
    ELSE mv.total_step_count - mv.steps_taken = 0

\* C19 as stated: the first due timed_step of a plan with an acceleration
\* ramp computes the substituted 1000 us interval.
C19_FirstIntervalIsSubstitute ==
    [][(/\ DueTimedStep
        /\ LinearAxis_is_moving(_current_move)
        /\ _current_move.steps_taken = 0
        /\ _current_move.accel_step_count >= 1)
          => _step_interval' = 1000]_vars

\* C19: a due timed_step steps first and computes the interval from the
\* position after the step, so the first interval of a plan with an
\* acceleration ramp is evaluated at steps_taken = 1 with a positive
\* velocity; the velocity is zero, and the 1000 us substitute is used, exactly
\* when the interval is computed on the zero plan (an idle axis, or the call
\* that emitted the last pulse of a move).
C19_SubstituteOnlyOnZeroPlan ==
    [][DueTimedStep =>
          /\ _step_interval'
                = LinearAxis_calculate_step_interval(_current_move', velocity_mm_s,
                                                     acceleration_mm_s2, steps_per_mm)
          /\ InstVelocityZero(_current_move', velocity_mm_s)
                <=> ~LinearAxis_is_moving(_current_move')
          /\ ~LinearAxis_is_moving(_current_move') => _step_interval' = 1000
          /\ (/\ LinearAxis_is_moving(_current_move)
              /\ _current_move.steps_taken = 0
              /\ _current_move.accel_step_count >= 1)
                => /\ LinearAxis_is_moving(_current_move')
                   /\ _current_move'.steps_taken = 1
                   /\ _step_interval' # 1000]_vars

\* C19 witness: the first due timed_step of a plan with an acceleration ramp
\* has acted and left an interval that is neither the start value nor the
\* substitute.
C19_Witness ==
    /\ op = "timed_step"
    /\ LinearAxis_is_moving(_current_move)
    /\ plan.accel_step_count >= 1
    /\ pulses = 1
    /\ _current_move.steps_taken = 1
    /\ _step_interval \notin {100, 1000}

\* C20: once a seek loop has observed its trigger no pulse is emitted until
\* the step counter is zeroed. The iteration of endstop_seek that reads the
\* endstop as asserted calls no timed_step (none at all if it is asserted on
\* entry); stallguard_seek tests the stall flag after each timed_step and
\* leaves the loop before the next one; from the loop exit the only step of
\* the axis is the seek's clean-up, which zeroes total_steps where the
\* trigger was observed.
C20_NoPulseAfterTrigger ==
    [][/\ (InSeek /\ AtBreak' /\ homing = "endstop") =>
              /\ trigger'
              /\ UNCHANGED <<move_vars, stepper, stepper2, pulses>>
       /\ (InSeek /\ AtBreak' /\ homing = "stall") =>
              /\ trigger'
              /\ pulses' <= pulses + 1
       /\ (InSeek /\ trigger') => AtBreak'
       /\ AtBreak =>
              /\ pulses' = pulses
              /\ \/ UNCHANGED <<move_vars, stepper, stepper2, pc>>
                 \/ /\ stepper.total_steps = origin + plan.direction * pulses
                    /\ stepper'.total_steps = 0
                    /\ ~LinearAxis_is_moving(_current_move')
                    /\ pc' \in {"zeroed", "rezeroed"}]_vars

\* C20 witness: endstop_seek found the endstop asserted on entry and left
\* its loop without a single step.
C20_Witness ==
    /\ pc = "seek_break"
    /\ homing = "endstop"
    /\ op = "seek_iter"
    /\ trigger
    /\ pulses = 0
    /\ stepper.total_steps = 0
    /\ LinearAxis_is_moving(_current_move)

====
